---------------------------- MODULE Spec2Model ----------------------------
(***************************************************************************)
(* Tatodetect database generator (tools/generate.py).                      *)
(*                                                                         *)
(* main() runs RawTatodetectDB.count over the corpus file (four passes,    *)
(* n = 5 down to 2, with buffer flushes into the raw sqlite store), then   *)
(* TatodetectDB.extract_key_content_from, then deletes the raw store.      *)
(*                                                                         *)
(* Representation.  A corpus line is the sequence of its tab-separated     *)
(* fields as they stand in the file; the sentence id and the text are      *)
(* sequences of one-character strings, the language code and the user are  *)
(* atomic strings.  A Python dict is a sequence of entries in insertion    *)
(* order, a sqlite table is the sequence of its rows in rowid order, and   *)
(* None is the empty sequence where a value is <<v>>.  A float quotient    *)
(* hit / tot is the pair <<hit, tot>>.                                     *)
(***************************************************************************)
EXTENDS Integers, Sequences, FiniteSets

\* ------------------------------------------------------------ constants

IDEOGRAM_LANGS == {"wuu", "yue", "cmn"}
\* 0.000005 and 0.00001 as exact fractions <<numerator, denominator>>
IDEOGRAM_NGRAM_FREQ_LIMIT == <<5, 1000000>>
NGRAM_FREQ_LIMIT == <<1, 100000>>
MIN_USER_CONTRIB_IN_LANG == 100
MIN_NGRAM_SIZE == 2
MAX_NGRAM_SIZE == 5
\* main(): max_memory = 500, also the default of count()
max_memory == 500

NgramSizes == MIN_NGRAM_SIZE..MAX_NGRAM_SIZE

\* --------------------------------------------------------------- bounds

\* longest corpus file, in lines
MaxLines == 3

\* ------------------------------------------------------ the corpus pool

ab == <<"a", "b">>
ababab == <<"a", "b", "a", "b", "a", "b">>
abc == <<"a", "b", "c">>

\* The lines a corpus file is made of: admitted lines in two languages (one
\* of them an ideogram language) with texts shorter and longer than every
\* n-gram size, a line with the null marker, a line with an empty language,
\* and a line with two fields only.
CorpusLines ==
    { << <<"1">>, "eng", ab, "u1" >>,
      << <<"2">>, "eng", ababab, "u1" >>,
      << <<"3">>, "cmn", abc, "u2", "2020-01-01" >>,
      << <<"4">>, "\\N", <<"x", "x">>, "u2" >>,
      << <<"5">>, "", ab, "u1" >>,
      << <<"6">>, "eng" >>,
      << <<"7">>, "eng", <<"a">>, "u2" >> }

RECURSIVE SeqsUpTo(_, _)
SeqsUpTo(S, k) ==
    IF k = 0 THEN {<<>>}
    ELSE LET shorter == SeqsUpTo(S, k - 1)
         IN  shorter \cup {Append(s, x) : s \in {t \in shorter : Len(t) = k - 1}, x \in S}

Corpora == SeqsUpTo(CorpusLines, MaxLines)
\* what get_sentences_with_tag may return: no id, or the id of the first line
Blacklists == {{}, {1}}
\* one platform where getrusage is used and one where it is not
Platforms == {"linux", "win32"}

\* ru_maxrss as the kernel reports it: kilobytes on Linux, bytes on OS X
RuMaxRss(platform) ==
    IF platform = "linux" THEN {499999, 500000} ELSE {499999999, 500000000}

\* ------------------------------------------------------- line parsing

Whitespace == {" ", "\t", "\n"}

\* field i of a line holds nothing but whitespace
Blank(line, i) ==
    IF i \in {1, 3}
    THEN \A k \in 1..Len(line[i]) : line[i][k] \in Whitespace
    ELSE line[i] \in {"", " "}

RECURSIVE RStripText(_)
RStripText(t) ==
    IF t # <<>> /\ t[Len(t)] \in Whitespace
    THEN RStripText(SubSeq(t, 1, Len(t) - 1))
    ELSE t

\* line.rstrip().split("\t"): trailing blank fields go with their tabs, and at
\* least one (possibly empty) field is left
SplitFields(line) ==
    LET nonblank == {i \in 1..Len(line) : ~Blank(line, i)}
        last == IF nonblank = {} THEN 1
                ELSE CHOOSE i \in nonblank : \A j \in nonblank : j <= i
    IN  [i \in 1..last |->
           IF i = last /\ i \in {1, 3} THEN RStripText(line[i]) ELSE line[i]]

\* sent_id, lang, text, user = fields[:4] raises ValueError on fewer than
\* four fields; the handler catches IndexError only
UnpackRaises(line) == Len(SplitFields(line)) < 4

DigitValue(c) ==
    CASE c = "0" -> 0 [] c = "1" -> 1 [] c = "2" -> 2 [] c = "3" -> 3
      [] c = "4" -> 4 [] c = "5" -> 5 [] c = "6" -> 6 [] c = "7" -> 7
      [] c = "8" -> 8 [] c = "9" -> 9

Digits == {"0", "1", "2", "3", "4", "5", "6", "7", "8", "9"}

IsIntLiteral(s) == s # <<>> /\ \A k \in 1..Len(s) : s[k] \in Digits

RECURSIVE ParseInt(_)
\* int(sent_id)
ParseInt(s) ==
    IF s = <<>> THEN 0
    ELSE 10 * ParseInt(SubSeq(s, 1, Len(s) - 1)) + DigitValue(s[Len(s)])

IsUnsetLangNullOnly(lang) == lang = "\\N"

\* lang == "\\N" or lang == ""
IsUnsetLang(lang) == lang = "\\N" \/ lang = ""

IsBlacklistedNever(sent_id, sentence_blacklist) == FALSE

\* int(sent_id) in sentence_blacklist
IsBlacklisted(sent_id, sentence_blacklist) ==
    ParseInt(sent_id) \in sentence_blacklist

\* --------------------------------------------------------- accumulation

\* range(stop): no index when stop is zero or negative
Range(stop) == IF stop > 0 THEN 1..stop ELSE {}

WindowsOffByOne(text, n) ==
    IF Range(Len(text) - n) = {} THEN <<>>
    ELSE [i \in Range(Len(text) - n) |-> SubSeq(text, i, i + n - 1)]

\* text[i : i + n] for i in range(len(text) - n + 1)
Windows(text, n) ==
    IF Range(Len(text) - n + 1) = {} THEN <<>>
    ELSE [i \in Range(Len(text) - n + 1) |-> SubSeq(text, i, i + n - 1)]

LangIndex(cnt, lang) ==
    IF \E i \in 1..Len(cnt) : cnt[i].lang = lang
    THEN CHOOSE i \in 1..Len(cnt) : cnt[i].lang = lang
    ELSE 0

GramIndex(d, ngram) ==
    IF \E i \in 1..Len(d) : d[i].gram = ngram
    THEN CHOOSE i \in 1..Len(d) : d[i].gram = ngram
    ELSE 0

\* One turn of the loop of lines 121-125 on the pair [cnt, tot]: looking up
\* lang_ngram_cnt[lang] creates the language's dict when it is missing.
AddNgram(acc, lang, ngram) ==
    LET cnt0 == acc.cnt
        cnt1 == IF LangIndex(cnt0, lang) = 0
                THEN Append(cnt0, [lang |-> lang, d |-> <<>>])
                ELSE cnt0
        li == LangIndex(cnt1, lang)
        d == cnt1[li].d
        gi == GramIndex(d, ngram)
    IN  IF gi = 0
        THEN [cnt |-> [cnt1 EXCEPT ![li].d = Append(d, [gram |-> ngram, hits |-> 1])],
              tot |-> acc.tot + 1]
        ELSE [cnt |-> [cnt1 EXCEPT ![li].d[gi].hits = @ + 1],
              tot |-> acc.tot]

RECURSIVE AddNgrams(_, _, _, _)
AddNgrams(acc, lang, grams, i) ==
    IF i > Len(grams) THEN acc
    ELSE AddNgrams(AddNgram(acc, lang, grams[i]), lang, grams, i + 1)

ScoreEveryPass(n) == TRUE

\* if n == MIN_NGRAM_SIZE
ScorePass(n) == n = MIN_NGRAM_SIZE

ScoreIndex(score, user, lang) ==
    IF \E i \in 1..Len(score) : score[i].user = user /\ score[i].lang = lang
    THEN CHOOSE i \in 1..Len(score) : score[i].user = user /\ score[i].lang = lang
    ELSE 0

\* user_lang_score[(user, lang)] += len(text)
AddScore(score, user, lang, text) ==
    LET i == ScoreIndex(score, user, lang)
    IN  IF i = 0
        THEN Append(score, [user |-> user, lang |-> lang, total |-> Len(text)])
        ELSE [score EXCEPT ![i].total = @ + Len(text)]

\* --------------------------------------------------------- the raw store

RECURSIVE FlattenDict(_, _)
FlattenDict(lang, d) ==
    IF d = <<>> THEN <<>>
    ELSE <<[gram |-> d[1].gram, lang |-> lang, hits |-> d[1].hits]>>
         \o FlattenDict(lang, Tail(d))

RECURSIVE BatchEntries(_)
\* the (ngram, lang, hits) parameter sets in the order the two loops of
\* _upsert_ngram_hits execute them
BatchEntries(cnt) ==
    IF cnt = <<>> THEN <<>>
    ELSE FlattenDict(cnt[1].lang, cnt[1].d) \o BatchEntries(Tail(cnt))

RowIndex(table, gram, lang) ==
    IF \E i \in 1..Len(table) : table[i].gram = gram /\ table[i].lang = lang
    THEN CHOOSE i \in 1..Len(table) : table[i].gram = gram /\ table[i].lang = lang
    ELSE 0

UpsertRowOverwrite(table, e) ==
    LET i == RowIndex(table, e.gram, e.lang)
    IN  IF i = 0
        THEN Append(table, [gram |-> e.gram, lang |-> e.lang, hit |-> e.hits])
        ELSE [table EXCEPT ![i].hit = e.hits]

UpsertRowAppends(table, e) ==
    Append(table, [gram |-> e.gram, lang |-> e.lang, hit |-> e.hits])

\* INSERT ... ON CONFLICT (gram, lang) DO UPDATE SET hit = hit + :hits
UpsertRow(table, e) ==
    LET i == RowIndex(table, e.gram, e.lang)
    IN  IF i = 0
        THEN Append(table, [gram |-> e.gram, lang |-> e.lang, hit |-> e.hits])
        ELSE [table EXCEPT ![i].hit = @ + e.hits]

RECURSIVE UpsertPrefix(_, _, _)
\* the table as the connection sees it after the first k statements
UpsertPrefix(table, entries, k) ==
    IF k = 0 THEN table
    ELSE UpsertRow(UpsertPrefix(table, entries, k - 1), entries[k])

RollbackKeepsWrites(committed, working) == working

\* the connection's context manager rolls the open transaction back when the
\* block raises: the table is again what was last committed
Rollback(committed, working) == committed

\* _upsert_ngram_hits when no statement fails: all statements, then commit
Upsert(table, cnt) ==
    LET entries == BatchEntries(cnt)
    IN  UpsertPrefix(table, entries, Len(entries))

EmptyGrams == [k \in NgramSizes |-> <<>>]
AbsentStore == [exists |-> FALSE, grams |-> EmptyGrams, users_langs |-> <<>>]
\* _init_db on a deleted file: the five empty tables
FreshStore == [exists |-> TRUE, grams |-> EmptyGrams, users_langs |-> <<>>]
\* what an earlier run may have left at the raw store's path
StaleRawStore ==
    [exists |-> TRUE,
     grams |-> [k \in NgramSizes |->
                  IF k = 2 THEN <<[gram |-> <<"z", "z">>, lang |-> "deu", hit |-> 7]>>
                  ELSE <<>>],
     users_langs |-> <<[user |-> "u9", lang |-> "deu", total |-> 700]>>]

\* get_peak_memory_usage(): megabytes, or None where getrusage is not used
get_peak_memory_usage(platform, ru_maxrss) ==
    IF platform \in {"linux", "darwin"}
    THEN IF platform = "linux" THEN <<ru_maxrss \div 1000>>
         ELSE <<ru_maxrss \div (1000 * 1000)>>
    ELSE <<>>


\* ------------------------------------------------ get_sentences_with_tag

\* longest tags file, in lines
MaxTagLines == 3

\* Path(sys.argv[3]) when it names no file
NoSuchFile == "nope.csv"

\* The lines a tags file is made of, as id and tag: a line with the tag
\* looked for, a line with another tag, a line with no tab, a line with the
\* tag and an id that is no number, a line with three fields, and a line
\* whose tag is empty.
TagLines ==
    { << <<"1">>, "@change flag" >>,
      << <<"2">>, "OK" >>,
      << <<"3">> >>,
      << <<"x">>, "@change flag" >>,
      << <<"4">>, "@change flag", <<"e">> >>,
      << <<"5">>, "" >> }

\* tags_path as main() makes it, with the lines of the file it names:
\* None without a third argument, the path of no file, the path of a file
TagsFiles ==
    {[path |-> <<>>, lines |-> <<>>], [path |-> <<NoSuchFile>>, lines |-> <<>>]}
    \cup {[path |-> <<"tags.csv">>, lines |-> l] : l \in SeqsUpTo(TagLines, MaxTagLines)}

\* sentence_id, tag = line.rstrip().split("\t") raises ValueError unless the
\* line has two fields, and int(sentence_id) raises it on a tagged line whose
\* id is no number
TagLineRaises(line, tag_name) ==
    LET fields == SplitFields(line)
    IN  \/ Len(fields) # 2
        \/ fields[2] = tag_name /\ ~IsIntLiteral(fields[1])

RECURSIVE ScanTags(_, _, _)
\* the loop of lines 357-360 from the set `tagged` on: the exception raised
\* ("" when none is) and the set as the loop leaves it
ScanTags(lines, tag_name, tagged) ==
    IF lines = <<>> THEN [raised |-> "", tagged |-> tagged]
    ELSE IF TagLineRaises(lines[1], tag_name)
    THEN [raised |-> "ValueError", tagged |-> tagged]
    ELSE ScanTags(Tail(lines), tag_name,
                  IF SplitFields(lines[1])[2] = tag_name
                  THEN tagged \cup {ParseInt(SplitFields(lines[1])[1])}
                  ELSE tagged)

\* the exceptions the try statement of lines 355-362 handles
TagsHandled == {"IndexError"}

\* get_sentences_with_tag(tags_path, tag_name): open() raises TypeError on
\* None and FileNotFoundError on the path of no file; an exception the
\* handler catches ends the loop and the set built so far is returned
get_sentences_with_tag(tags_path, tag_name) ==
    LET outcome ==
            IF tags_path.path = <<>>
            THEN [raised |-> "TypeError", tagged |-> {}]
            ELSE IF tags_path.path = <<NoSuchFile>>
            THEN [raised |-> "FileNotFoundError", tagged |-> {}]
            ELSE ScanTags(tags_path.lines, tag_name, {})
    IN  IF outcome.raised \in TagsHandled
        THEN [raised |-> "", tagged |-> outcome.tagged]
        ELSE outcome

\* the tags file that holds one line with the tag for every id of `ids`
RECURSIVE TagsFileOf(_)
TagsFileOf(ids) ==
    IF ids = {} THEN [path |-> <<"tags.csv">>, lines |-> <<>>]
    ELSE LET id == CHOOSE i \in ids : \A j \in ids : i <= j
             rest == TagsFileOf(ids \ {id})
         IN  [rest EXCEPT !.lines =
                 << <<IF id = 1 THEN <<"1">> ELSE <<"4">>, "@change flag">> >> \o @]

\* ---------------------------------------------------------------- state

VARIABLES
    tags,              \* tags_path and the lines of the file it names
    corpus,            \* the lines of sentences_detailed.csv
    sentence_blacklist,\* the ids get_sentences_with_tag returned
    platform,          \* sys.platform
    pc,                \* where main() stands
    err,               \* the exception that ended the run, "" while none
    n,                 \* count: the n-gram size of the current pass
    lines_read,        \* count: lines of the current pass read so far
    tot_ngrams,        \* count: the counter compared with the target
    peak_tot_ngrams,   \* count: <<>> (None) or <<target>>
    user_lang_score,   \* count: (user, lang) -> characters
    lang_ngram_cnt,    \* count: lang -> ngram -> hits, the buffer
    raw,               \* the raw store as committed
    txn,               \* the rows the failed flush had written before it raised
    fin,               \* the final store
    flushes            \* history: buffer flushes made inside the line loop

vars == <<tags, corpus, sentence_blacklist, platform, pc, err, n, lines_read,
          tot_ngrams, peak_tot_ngrams, user_lang_score, lang_ngram_cnt,
          raw, txn, fin, flushes>>

inputs == <<tags, corpus, sentence_blacklist, platform>>
countLocals == <<n, lines_read, tot_ngrams, peak_tot_ngrams, user_lang_score,
                 lang_ngram_cnt>>

\* the most buffer flushes the history variable tells apart
FlushCap == 2

\* main() at line 409: get_sentences_with_tag has returned sentence_blacklist
Init ==
    /\ corpus \in Corpora
    /\ sentence_blacklist \in Blacklists
    /\ tags = TagsFileOf(sentence_blacklist)
    /\ platform \in Platforms
    /\ pc = "start"
    /\ err = ""
    /\ n = 0
    /\ lines_read = 0
    /\ tot_ngrams = 0
    /\ peak_tot_ngrams = <<>>
    /\ user_lang_score = <<>>
    /\ lang_ngram_cnt = <<>>
    /\ raw \in {AbsentStore, StaleRawStore}
    /\ txn = <<>>
    /\ fin = AbsentStore
    /\ flushes = 0

\* ------------------------------------------------- RawTatodetectDB.count

\* lines 89-98: delete_file, _init_db, the locals, the first pass
CountBegin ==
    /\ pc = "start"
    /\ pc' = "count"
    /\ raw' = FreshStore
    /\ n' = MAX_NGRAM_SIZE
    /\ lines_read' = 0
    /\ tot_ngrams' = 0
    /\ peak_tot_ngrams' = <<>>
    /\ user_lang_score' = <<>>
    /\ lang_ngram_cnt' = <<>>
    /\ UNCHANGED <<inputs, err, txn, fin, flushes>>

AtLine == pc = "count" /\ lines_read < Len(corpus)
Line == corpus[lines_read + 1]
Fields == SplitFields(Line)

\* the line passes lines 102-114
Admitted(line, blacklist) ==
    /\ ~UnpackRaises(line)
    /\ ~IsUnsetLang(SplitFields(line)[2])
    /\ IsIntLiteral(SplitFields(line)[1])
    /\ ~IsBlacklisted(SplitFields(line)[1], blacklist)

Abort(e) ==
    /\ pc' = "aborted"
    /\ err' = e

\* lines 102-107: the unpacking raises ValueError, which `except IndexError`
\* does not catch; so does int() of an id that is no number (line 113)
LineRaises ==
    /\ AtLine
    /\ \/ UnpackRaises(Line)
       \/ /\ ~UnpackRaises(Line)
          /\ ~IsUnsetLang(Fields[2])
          /\ ~IsIntLiteral(Fields[1])
    /\ lines_read' = lines_read + 1
    /\ Abort("ValueError")
    /\ UNCHANGED <<inputs, n, tot_ngrams, peak_tot_ngrams, user_lang_score,
                   lang_ngram_cnt, raw, txn, fin, flushes>>

\* lines 110-111 and 113-114: continue
LineIgnored ==
    /\ AtLine
    /\ ~UnpackRaises(Line)
    /\ \/ IsUnsetLang(Fields[2])
       \/ /\ IsIntLiteral(Fields[1])
          /\ IsBlacklisted(Fields[1], sentence_blacklist)
    /\ lines_read' = lines_read + 1
    /\ UNCHANGED <<inputs, pc, err, n, tot_ngrams, peak_tot_ngrams,
                   user_lang_score, lang_ngram_cnt, raw, txn, fin,
                   flushes>>

\* lines 117-125 on an admitted line: the score, then the n-grams
Counted ==
    AddNgrams([cnt |-> lang_ngram_cnt, tot |-> tot_ngrams], Fields[2],
              Windows(Fields[3], n), 1)
Scored ==
    IF ScorePass(n)
    THEN AddScore(user_lang_score, Fields[4], Fields[2], Fields[3])
    ELSE user_lang_score

\* the condition of lines 128-134 once the target is set
TargetReached(tot, peak) == peak # <<>> /\ tot >= peak[1]
\* the condition of lines 128-134 while it is not
MemoryReached(peak, reading) == peak = <<>> /\ reading[1] >= max_memory

\* an admitted line after which the buffer is kept
LineCounted ==
    /\ AtLine
    /\ Admitted(Line, sentence_blacklist)
    /\ IF peak_tot_ngrams = <<>>
       THEN \E ru \in RuMaxRss(platform) :
               LET reading == get_peak_memory_usage(platform, ru)
               IN  reading # <<>> /\ ~MemoryReached(peak_tot_ngrams, reading)
       ELSE ~TargetReached(Counted.tot, peak_tot_ngrams)
    /\ lines_read' = lines_read + 1
    /\ user_lang_score' = Scored
    /\ lang_ngram_cnt' = Counted.cnt
    /\ tot_ngrams' = Counted.tot
    /\ UNCHANGED <<inputs, pc, err, n, peak_tot_ngrams, raw, txn, fin,
                   flushes>>

\* None >= max_memory raises TypeError
LineProbeRaises ==
    /\ AtLine
    /\ Admitted(Line, sentence_blacklist)
    /\ peak_tot_ngrams = <<>>
    /\ \E ru \in RuMaxRss(platform) : get_peak_memory_usage(platform, ru) = <<>>
    /\ lines_read' = lines_read + 1
    /\ user_lang_score' = Scored
    /\ lang_ngram_cnt' = Counted.cnt
    /\ tot_ngrams' = Counted.tot
    /\ Abort("TypeError")
    /\ UNCHANGED <<inputs, n, peak_tot_ngrams, raw, txn, fin, flushes>>

FlushDue ==
    /\ AtLine
    /\ Admitted(Line, sentence_blacklist)
    /\ IF peak_tot_ngrams = <<>>
       THEN \E ru \in RuMaxRss(platform) :
               LET reading == get_peak_memory_usage(platform, ru)
               IN  reading # <<>> /\ MemoryReached(peak_tot_ngrams, reading)
       ELSE TargetReached(Counted.tot, peak_tot_ngrams)

LineFlushedKeepsBuffer ==
    /\ FlushDue
    /\ lines_read' = lines_read + 1
    /\ user_lang_score' = Scored
    /\ raw' = [raw EXCEPT !.grams[n] = Upsert(@, Counted.cnt)]
    /\ lang_ngram_cnt' = Counted.cnt
    /\ peak_tot_ngrams' = <<Counted.tot>>
    /\ tot_ngrams' = 0
    /\ flushes' = IF flushes < FlushCap THEN flushes + 1 ELSE flushes
    /\ UNCHANGED <<inputs, pc, err, n, txn, fin>>

\* an admitted line after which the buffer is flushed: lines 135-138
LineFlushed ==
    /\ FlushDue
    /\ lines_read' = lines_read + 1
    /\ user_lang_score' = Scored
    /\ raw' = [raw EXCEPT !.grams[n] = Upsert(@, Counted.cnt)]
    /\ lang_ngram_cnt' = <<>>
    /\ peak_tot_ngrams' = <<Counted.tot>>
    /\ tot_ngrams' = 0
    /\ flushes' = IF flushes < FlushCap THEN flushes + 1 ELSE flushes
    /\ UNCHANGED <<inputs, pc, err, n, txn, fin>>

\* the flush of line 135 when its statement k + 1 fails: the exception leaves
\* the with block, which rolls back, and count
LineFlushFails ==
    /\ FlushDue
    /\ \E k \in 0..(Len(BatchEntries(Counted.cnt)) - 1) :
          LET working == UpsertPrefix(raw.grams[n], BatchEntries(Counted.cnt), k)
          IN  /\ txn' = working
              /\ raw' = [raw EXCEPT !.grams[n] = Rollback(@, working)]
    /\ lines_read' = lines_read + 1
    /\ user_lang_score' = Scored
    /\ lang_ngram_cnt' = Counted.cnt
    /\ tot_ngrams' = Counted.tot
    /\ Abort("sqlite3.Error")
    /\ UNCHANGED <<inputs, n, peak_tot_ngrams, fin, flushes>>

AtEndOfFile == pc = "count" /\ lines_read = Len(corpus)

\* line 140 on a file with no line: line_id was never bound
EndOfEmptyFile ==
    /\ AtEndOfFile
    /\ lines_read = 0
    /\ Abort("UnboundLocalError")
    /\ UNCHANGED <<inputs, countLocals, raw, txn, fin, flushes>>

EndOfPassDropsRemainder ==
    /\ AtEndOfFile
    /\ lines_read > 0
    /\ n > MIN_NGRAM_SIZE
    /\ n' = n - 1
    /\ lines_read' = 0
    /\ lang_ngram_cnt' = <<>>
    /\ UNCHANGED <<inputs, pc, err, tot_ngrams, peak_tot_ngrams,
                   user_lang_score, raw, txn, fin, flushes>>

EndOfPassRecalibrates ==
    /\ AtEndOfFile
    /\ lines_read > 0
    /\ n > MIN_NGRAM_SIZE
    /\ raw' = [raw EXCEPT !.grams[n] = Upsert(@, lang_ngram_cnt)]
    /\ n' = n - 1
    /\ lines_read' = 0
    /\ lang_ngram_cnt' = <<>>
    /\ tot_ngrams' = 0
    /\ peak_tot_ngrams' = <<>>
    /\ UNCHANGED <<inputs, pc, err, user_lang_score, txn, fin, flushes>>

\* lines 140-145 and 96-98: the remaining hits go to the table, the next pass
\* starts with a new buffer; tot_ngrams and peak_tot_ngrams stay
EndOfPass ==
    /\ AtEndOfFile
    /\ lines_read > 0
    /\ n > MIN_NGRAM_SIZE
    /\ raw' = [raw EXCEPT !.grams[n] = Upsert(@, lang_ngram_cnt)]
    /\ n' = n - 1
    /\ lines_read' = 0
    /\ lang_ngram_cnt' = <<>>
    /\ UNCHANGED <<inputs, pc, err, tot_ngrams, peak_tot_ngrams,
                   user_lang_score, txn, fin, flushes>>

\* the flush of line 143 when its statement k + 1 fails
EndFlushFails ==
    /\ AtEndOfFile
    /\ lines_read > 0
    /\ \E k \in 0..(Len(BatchEntries(lang_ngram_cnt)) - 1) :
          LET working == UpsertPrefix(raw.grams[n], BatchEntries(lang_ngram_cnt), k)
          IN  /\ txn' = working
              /\ raw' = [raw EXCEPT !.grams[n] = Rollback(@, working)]
    /\ Abort("sqlite3.Error")
    /\ UNCHANGED <<inputs, countLocals, fin, flushes>>

\* _insert_user_scores: one row for each key of the dict, in its order
InsertUserScores(table, score) == table \o score

\* lines 140-148 after the last pass: the last flush, the scores, the return
\* (count's locals end with it)
CountReturns ==
    /\ AtEndOfFile
    /\ lines_read > 0
    /\ n = MIN_NGRAM_SIZE
    /\ raw' = [raw EXCEPT
                 !.grams[n] = Upsert(@, lang_ngram_cnt),
                 !.users_langs = InsertUserScores(@, user_lang_score)]
    /\ pc' = "counted"
    /\ n' = 0
    /\ lines_read' = 0
    /\ tot_ngrams' = 0
    /\ peak_tot_ngrams' = <<>>
    /\ user_lang_score' = <<>>
    /\ lang_ngram_cnt' = <<>>
    /\ UNCHANGED <<inputs, err, txn, fin, flushes>>

CountNext ==
    \/ CountBegin
    \/ LineRaises
    \/ LineIgnored
    \/ LineCounted
    \/ LineProbeRaises
    \/ LineFlushed
    \/ LineFlushFails
    \/ EndOfEmptyFile
    \/ EndOfPass
    \/ EndFlushFails
    \/ CountReturns

\* ------------------------------- TatodetectDB.extract_key_content_from

RECURSIVE LangTotal(_, _)
\* SELECT lang, SUM(hit) AS tot FROM raw_db.grams{n} GROUP BY lang
LangTotal(table, lang) ==
    IF table = <<>> THEN 0
    ELSE (IF table[1].lang = lang THEN table[1].hit ELSE 0)
         + LangTotal(Tail(table), lang)

\* CASE WHEN lang IN (IDEOGRAM_LANGS) THEN ? ELSE ? END
FreqLimit(lang) ==
    IF lang \in IDEOGRAM_LANGS THEN IDEOGRAM_NGRAM_FREQ_LIMIT ELSE NGRAM_FREQ_LIMIT

ExceedsOrEquals(percent, limit) ==
    percent[1] >= (limit[1] * percent[2] + limit[2] - 1) \div limit[2]

\* percent > limit for percent = hit / tot and limit = p / q, that is
\* hit * q > p * tot, that is hit > floor(p * tot / q): the form whose
\* products stay small.  The doubles sqlite compares order as the exact
\* fractions do while tot is below 10^15.
Exceeds(percent, limit) ==
    percent[1] > (limit[1] * percent[2]) \div limit[2]

RECURSIVE SelectKeyNgrams(_, _)
\* the INSERT ... SELECT of lines 262-285 over the rows `rows` of the raw
\* table `table`, which sqlite scans in rowid order
SelectKeyNgrams(rows, table) ==
    IF rows = <<>> THEN <<>>
    ELSE LET r == rows[1]
             percent == <<r.hit, LangTotal(table, r.lang)>>
         IN  (IF Exceeds(percent, FreqLimit(r.lang))
              THEN <<[gram |-> r.gram, lang |-> r.lang, hit |-> r.hit,
                      percent |-> percent]>>
              ELSE <<>>)
             \o SelectKeyNgrams(Tail(rows), table)

IsKeyContributorInclusive(total) == total >= MIN_USER_CONTRIB_IN_LANG

\* WHERE total > ?
IsKeyContributor(total) == total > MIN_USER_CONTRIB_IN_LANG

RECURSIVE SelectKeyUsers(_)
\* SELECT * FROM raw_db.users_langs WHERE total > ?
SelectKeyUsers(rows) ==
    IF rows = <<>> THEN <<>>
    ELSE (IF IsKeyContributor(rows[1].total) THEN <<rows[1]>> ELSE <<>>)
         \o SelectKeyUsers(Tail(rows))

\* what an earlier run may have left at the final store's path
StaleFinalStore ==
    [exists |-> TRUE,
     grams |-> [k \in NgramSizes |->
                  IF k = 2
                  THEN <<[gram |-> <<"z", "z">>, lang |-> "deu", hit |-> 7,
                          percent |-> <<7, 7>>]>>
                  ELSE <<>>],
     users_langs |-> <<[user |-> "u9", lang |-> "deu", total |-> 700]>>]

\* lines 247-255: delete_file, _init_db, connect, attach
ExtractBegin ==
    /\ pc = "counted"
    /\ pc' = "extract"
    /\ fin' = FreshStore
    /\ UNCHANGED <<inputs, err, countLocals, raw, txn, flushes>>

\* the raw store's file holds the five tables the SELECTs of lines 262-296 read
HasEveryTable(store) ==
    /\ store.exists
    /\ DOMAIN store.grams = NgramSizes
    /\ "users_langs" \in DOMAIN store

\* lines 257-309: every grams table, the users, the indexes, the commit
ExtractImport ==
    /\ pc = "extract"
    /\ HasEveryTable(raw)
    /\ pc' = "extracted"
    /\ fin' = [fin EXCEPT
                 !.grams = [k \in NgramSizes |->
                              fin.grams[k] \o SelectKeyNgrams(raw.grams[k], raw.grams[k])],
                 !.users_langs = @ \o SelectKeyUsers(raw.users_langs)]
    /\ UNCHANGED <<inputs, err, countLocals, raw, txn, flushes>>

\* main(), line 415: raw_db.delete_file()
DeleteRaw ==
    /\ pc = "extracted"
    /\ pc' = "done"
    /\ raw' = AbsentStore
    /\ UNCHANGED <<inputs, err, countLocals, txn, fin, flushes>>

\* lines 257-296 on a raw store without one of the tables (ATTACH makes an
\* empty database of a path that names no file): the SELECT raises
\* sqlite3.OperationalError, which nothing catches.  The rows inserted before
\* it belong to a transaction that is never committed; the empty tables
\* _init_db committed at line 249 stay.
ExtractFails ==
    /\ pc = "extract"
    /\ ~HasEveryTable(raw)
    /\ pc' = "aborted"
    /\ err' = "sqlite3.OperationalError"
    /\ UNCHANGED <<inputs, countLocals, raw, txn, fin, flushes>>

ExtractNext ==
    \/ ExtractBegin
    \/ ExtractImport
    \/ ExtractFails
    \/ DeleteRaw

\* main(): count, then the extraction from the raw store count has just
\* filled, which has every table
Next ==
    \/ CountNext
    \/ ExtractBegin
    \/ ExtractImport
    \/ DeleteRaw

Spec == Init /\ [][Next]_vars

\* ---------- extract_key_content_from on the raw stores of large corpora

\* the n-gram of size k made of the character c
Rep(c, k) == [i \in 1..k |-> c]

\* hit counts of two n-grams of a language that put the first one's share at,
\* just over and just under the limits
EngHits == {<<1, 99999>>, <<1, 99998>>, <<1, 100000>>, <<2, 199998>>, <<3, 7>>}
CmnHits == {<<1, 199999>>, <<1, 199998>>, <<1, 200000>>, <<1, 99999>>}
UserTotals == {1, 100, 101}

LargeRawStores ==
    { [exists |-> TRUE,
       grams |-> [k \in NgramSizes |->
                    << [gram |-> Rep("a", k), lang |-> "eng", hit |-> e[1]],
                       [gram |-> Rep("a", k), lang |-> "cmn", hit |-> c[1]],
                       [gram |-> Rep("b", k), lang |-> "eng", hit |-> e[2]],
                       [gram |-> Rep("b", k), lang |-> "cmn", hit |-> c[2]] >>],
       users_langs |-> << [user |-> "u1", lang |-> "eng", total |-> t[1]],
                          [user |-> "u2", lang |-> "eng", total |-> t[2]],
                          [user |-> "u1", lang |-> "cmn", total |-> t[3]] >>]
      : e \in EngHits, c \in CmnHits,
        t \in UserTotals \X UserTotals \X UserTotals }

\* a raw store without its grams{k} table
WithoutGrams(store, k) ==
    [store EXCEPT !.grams = [j \in NgramSizes \ {k} |-> store.grams[j]]]

\* a raw store without its users_langs table
WithoutUsers(store) == [exists |-> store.exists, grams |-> store.grams]

\* raw stores extract_key_content_from cannot read: no file at the path, or a
\* file that lacks one of the five tables
IncompleteRawStores ==
    LET store == CHOOSE r \in LargeRawStores : TRUE
    IN  {AbsentStore, WithoutUsers(store)}
        \cup {WithoutGrams(store, k) : k \in NgramSizes}

\* extract_key_content_from is called with a raw store: one count has filled,
\* or one that is incomplete
InitExtract ==
    /\ corpus = <<>>
    /\ sentence_blacklist = {}
    /\ tags = TagsFileOf({})
    /\ platform = "linux"
    /\ pc = "counted"
    /\ err = ""
    /\ n = 0
    /\ lines_read = 0
    /\ tot_ngrams = 0
    /\ peak_tot_ngrams = <<>>
    /\ user_lang_score = <<>>
    /\ lang_ngram_cnt = <<>>
    /\ raw \in LargeRawStores \cup IncompleteRawStores
    /\ txn = <<>>
    /\ fin \in {AbsentStore, StaleFinalStore}
    /\ flushes = 0

SpecExtract == InitExtract /\ [][ExtractNext]_vars

\* -------------------------- main() up to the call of count: the blacklist

\* the tag main() blacklists, line 404
CHANGE_FLAG == "@change flag"

\* main() at line 404, tags_path set by lines 397-400
InitTags ==
    /\ tags \in TagsFiles
    /\ corpus = <<>>
    /\ sentence_blacklist = {}
    /\ platform = "linux"
    /\ pc = "tags"
    /\ err = ""
    /\ n = 0
    /\ lines_read = 0
    /\ tot_ngrams = 0
    /\ peak_tot_ngrams = <<>>
    /\ user_lang_score = <<>>
    /\ lang_ngram_cnt = <<>>
    /\ raw = AbsentStore
    /\ txn = <<>>
    /\ fin = AbsentStore
    /\ flushes = 0

\* line 404: get_sentences_with_tag returns and main() goes on to count
LoadBlacklist ==
    /\ pc = "tags"
    /\ get_sentences_with_tag(tags, CHANGE_FLAG).raised = ""
    /\ sentence_blacklist' = get_sentences_with_tag(tags, CHANGE_FLAG).tagged
    /\ pc' = "start"
    /\ UNCHANGED <<tags, corpus, platform, err, countLocals, raw, txn, fin, flushes>>

\* line 404: get_sentences_with_tag raises and nothing in main() catches it
LoadBlacklistRaises ==
    /\ pc = "tags"
    /\ get_sentences_with_tag(tags, CHANGE_FLAG).raised # ""
    /\ pc' = "aborted"
    /\ err' = get_sentences_with_tag(tags, CHANGE_FLAG).raised
    /\ UNCHANGED <<tags, corpus, sentence_blacklist, platform, countLocals, raw,
                   txn, fin, flushes>>

TagsNext ==
    \/ LoadBlacklist
    \/ LoadBlacklistRaises

SpecTags == InitTags /\ [][TagsNext]_vars

\* ============================================================ properties

\* count has just returned
CountCompleted == pc = "counted"

AllLangs == {"eng", "cmn", "deu", "\\N", ""}
AllUsers == {"u1", "u2", "u9", ""}

\* a corpus line as the properties read it: four fields or more, a set
\* language, an id outside the blacklist
IsAdmittedRecord(line, blacklist) ==
    /\ Len(line) >= 4
    /\ line[2] \notin {"\\N", ""}
    /\ ParseInt(line[1]) \notin blacklist

RECURSIVE HitSum(_, _)
\* the sum of hit over the rows of a table with lang = L
HitSum(table, L) ==
    IF table = <<>> THEN 0
    ELSE HitSum(Tail(table), L) + (IF table[1].lang = L THEN table[1].hit ELSE 0)

RECURSIVE WindowTotal(_, _, _, _)
\* the sum over the admitted records of language L of max(0, len(text) - k + 1)
WindowTotal(lines, blacklist, L, k) ==
    IF lines = <<>> THEN 0
    ELSE WindowTotal(Tail(lines), blacklist, L, k)
         + (IF IsAdmittedRecord(lines[1], blacklist) /\ lines[1][2] = L
               /\ Len(lines[1][3]) - k + 1 > 0
            THEN Len(lines[1][3]) - k + 1
            ELSE 0)

\* C1: after count completes, for every language L and every n in 2..5 the
\* hits of the rows of grams{n} with lang = L sum to the number of n-length
\* windows of the admitted records of language L.
C1_HitSumsEqualWindowCounts ==
    CountCompleted =>
        \A L \in AllLangs, k \in NgramSizes :
            HitSum(raw.grams[k], L) = WindowTotal(corpus, sentence_blacklist, L, k)

\* C1 witness: count completed after a flush inside the line loop, on a corpus
\* with an admitted text too short for any n-gram, a text with 5-grams and a
\* blacklisted line.
C1_Witness ==
    /\ CountCompleted
    /\ flushes >= 1
    /\ \E i \in 1..Len(corpus) :
          IsAdmittedRecord(corpus[i], sentence_blacklist) /\ Len(corpus[i][3]) < MIN_NGRAM_SIZE
    /\ \E i \in 1..Len(corpus) :
          Len(corpus[i]) >= 4 /\ ParseInt(corpus[i][1]) \in sentence_blacklist
    /\ HitSum(raw.grams[MAX_NGRAM_SIZE], "eng") > 1

RECURSIVE PassBuffer(_, _, _, _)
\* the buffer at the end of the pass of size k over `lines` when no flush
\* happens inside the line loop, starting from the buffer `cnt`
PassBuffer(cnt, lines, blacklist, k) ==
    IF lines = <<>> THEN cnt
    ELSE PassBuffer(
             IF Admitted(lines[1], blacklist)
             THEN AddNgrams([cnt |-> cnt, tot |-> 0], SplitFields(lines[1])[2],
                            Windows(SplitFields(lines[1])[3], k), 1).cnt
             ELSE cnt,
             Tail(lines), blacklist, k)

\* grams{k} of a run whose only flush of the pass is the one at its end
NoFlushTable(lines, blacklist, k) ==
    Upsert(<<>>, PassBuffer(<<>>, lines, blacklist, k))

\* a table as a mapping: the set of its rows
RowSet(table) == {table[i] : i \in 1..Len(table)}

\* no (gram, lang) key twice in the table
KeysUnique(table) ==
    \A i, j \in 1..Len(table) :
        (table[i].gram = table[j].gram /\ table[i].lang = table[j].lang) => i = j

\* C2: whatever the flushes inside the line loops were, every grams{n} table
\* holds after count the (n-gram, language) -> hit mapping of the run with no
\* flush inside the line loop.
C2_FlushTimingIrrelevant ==
    CountCompleted =>
        \A k \in NgramSizes :
            /\ KeysUnique(raw.grams[k])
            /\ RowSet(raw.grams[k]) = RowSet(NoFlushTable(corpus, sentence_blacklist, k))

\* C2 witness: count completed after flushes inside the line loop that left
\* the rows of grams2 in another order than the run without them, one of
\* the rows merged from several batches.
C2_Witness ==
    /\ CountCompleted
    /\ flushes >= 1
    /\ raw.grams[2] # NoFlushTable(corpus, sentence_blacklist, 2)
    /\ \E i \in 1..Len(raw.grams[2]) : raw.grams[2][i].hit >= 4

RECURSIVE WithoutBlacklisted(_, _)
\* the corpus with the lines whose sentence id is in the blacklist removed
WithoutBlacklisted(lines, blacklist) ==
    IF lines = <<>> THEN <<>>
    ELSE (IF ParseInt(lines[1][1]) \in blacklist THEN <<>> ELSE <<lines[1]>>)
         \o WithoutBlacklisted(Tail(lines), blacklist)

RECURSIVE PassScores(_, _, _)
\* the contribution scores count derives from `lines`
PassScores(score, lines, blacklist) ==
    IF lines = <<>> THEN score
    ELSE PassScores(
             IF Admitted(lines[1], blacklist)
             THEN AddScore(score, SplitFields(lines[1])[4], SplitFields(lines[1])[2],
                           SplitFields(lines[1])[3])
             ELSE score,
             Tail(lines), blacklist)

\* C3: a line whose sentence id is blacklisted adds nothing to any grams{n}
\* table nor to any score: the raw store after count is the raw store of the
\* corpus without the blacklisted lines.
C3_BlacklistedLineContributesNothing ==
    CountCompleted =>
        LET rest == WithoutBlacklisted(corpus, sentence_blacklist)
        IN  /\ \A k \in NgramSizes :
                  /\ KeysUnique(raw.grams[k])
                  /\ RowSet(raw.grams[k]) = RowSet(NoFlushTable(rest, sentence_blacklist, k))
            /\ raw.users_langs = PassScores(<<>>, rest, sentence_blacklist)

\* C3 witness: count completed, after a flush inside the line loop, on a
\* corpus with a blacklisted line of a set language whose contributor has an
\* admitted line in the same language.
C3_Witness ==
    /\ CountCompleted
    /\ flushes >= 1
    /\ \E i, j \in 1..Len(corpus) :
          /\ ParseInt(corpus[i][1]) \in sentence_blacklist
          /\ corpus[i][2] \notin {"\\N", ""}
          /\ IsAdmittedRecord(corpus[j], sentence_blacklist)
          /\ corpus[j][2] = corpus[i][2]
          /\ corpus[j][4] = corpus[i][4]
    /\ raw.users_langs # <<>>

UnsetLangs == {"\\N", ""}

\* no buffer entry, score or stored row carries an unset language
NoUnsetLangHeld ==
    /\ \A i \in 1..Len(lang_ngram_cnt) : lang_ngram_cnt[i].lang \notin UnsetLangs
    /\ \A i \in 1..Len(user_lang_score) : user_lang_score[i].lang \notin UnsetLangs
    /\ \A i \in 1..Len(raw.users_langs) : raw.users_langs[i].lang \notin UnsetLangs
    /\ \A k \in NgramSizes :
          \A i \in 1..Len(raw.grams[k]) : raw.grams[k][i].lang \notin UnsetLangs

\* the line about to be read has four fields and an unset language
AtUnsetLangLine ==
    /\ AtLine
    /\ Len(Line) >= 4
    /\ Line[2] \in UnsetLangs

\* C4: a record whose language is "\N" or empty never reaches the buffer:
\* reading it changes neither the buffer, the scores nor the raw store, and
\* no entry or row with such a language ever exists.
C4_UnsetLanguageNeverCounted ==
    /\ []NoUnsetLangHeld
    /\ [][AtUnsetLangLine =>
            /\ UNCHANGED <<lang_ngram_cnt, tot_ngrams, user_lang_score, raw>>
            /\ pc' = "count"
            /\ lines_read' = lines_read + 1]_vars

\* C4 witness: count completed on a corpus holding a line with the null
\* marker, a line with an empty language and an admitted line.
C4_Witness ==
    /\ CountCompleted
    /\ \E i \in 1..Len(corpus) : Len(corpus[i]) >= 4 /\ corpus[i][2] = "\\N"
    /\ \E i \in 1..Len(corpus) : Len(corpus[i]) >= 4 /\ corpus[i][2] = ""
    /\ raw.grams[2] # <<>>
    /\ raw.users_langs # <<>>

RECURSIVE CharTotal(_, _, _, _)
\* the sum of len(text) over the admitted records of user u in language L
CharTotal(lines, blacklist, u, L) ==
    IF lines = <<>> THEN 0
    ELSE CharTotal(Tail(lines), blacklist, u, L)
         + (IF IsAdmittedRecord(lines[1], blacklist) /\ lines[1][4] = u /\ lines[1][2] = L
            THEN Len(lines[1][3])
            ELSE 0)

HasAdmittedRecord(lines, blacklist, u, L) ==
    \E i \in 1..Len(lines) :
        IsAdmittedRecord(lines[i], blacklist) /\ lines[i][4] = u /\ lines[i][2] = L

\* the rows of users_langs for the pair (u, L)
ScoreRows(table, u, L) ==
    {i \in 1..Len(table) : table[i].user = u /\ table[i].lang = L}

\* C5: the scores are accumulated in the n = 2 pass only and stored once,
\* when the last pass has ended; users_langs then holds, for every
\* (contributor, language) pair with an admitted record, one row whose total
\* is the sum of len(text) over the pair's admitted records, each counted once.
C5_ScoresCountedOnceStoredOnce ==
    /\ pc \in {"count", "aborted"} => raw.users_langs = <<>>
    /\ (pc = "count" /\ n > MIN_NGRAM_SIZE) => user_lang_score = <<>>
    /\ CountCompleted =>
          \A u \in AllUsers, L \in AllLangs :
              LET rows == ScoreRows(raw.users_langs, u, L)
              IN  IF HasAdmittedRecord(corpus, sentence_blacklist, u, L)
                  THEN /\ Cardinality(rows) = 1
                       /\ \A i \in rows :
                             raw.users_langs[i].total
                                 = CharTotal(corpus, sentence_blacklist, u, L)
                  ELSE rows = {}

\* C5 witness: count completed with a contributor who has two admitted
\* records in one language, and another pair besides.
C5_Witness ==
    /\ CountCompleted
    /\ Len(raw.users_langs) >= 2
    /\ \E i, j \in 1..Len(corpus) :
          /\ i # j
          /\ IsAdmittedRecord(corpus[i], sentence_blacklist)
          /\ IsAdmittedRecord(corpus[j], sentence_blacklist)
          /\ corpus[i][2] = corpus[j][2]
          /\ corpus[i][4] = corpus[j][4]

\* extract_key_content_from has returned and the raw store is still on disk
Extracted == pc = "extracted"

\* 1 / threshold: 0.000005 = 1/200000 for wuu, yue and cmn, 0.00001 = 1/100000
\* for every other language
InverseThreshold(L) == IF L \in {"wuu", "yue", "cmn"} THEN 200000 ELSE 100000

\* hit / tot > 1 / d, that is hit * d > tot, that is hit > floor(tot / d)
OverThreshold(hit, tot, d) == hit > tot \div d

\* the rows of a final table that stem from the raw row r
KeptAs(table, r) ==
    {i \in 1..Len(table) : table[i].gram = r.gram /\ table[i].lang = r.lang}

\* C6: for each n, a raw row (gram, lang, hit) is in the final grams{n} if and
\* only if hit / (the hits of the raw rows of its lang) is strictly over the
\* threshold of the language; a kept row carries the raw hit and that
\* frequency, and the final table holds nothing else.
C6_KeyNgramsStrictlyOverThreshold ==
    Extracted =>
        \A k \in NgramSizes :
            LET rawt == raw.grams[k]
                fint == fin.grams[k]
            IN  /\ \A i \in 1..Len(rawt) :
                      LET r == rawt[i]
                          tot == HitSum(rawt, r.lang)
                          kept == KeptAs(fint, r)
                      IN  IF OverThreshold(r.hit, tot, InverseThreshold(r.lang))
                          THEN /\ Cardinality(kept) = 1
                               /\ \A j \in kept :
                                     fint[j].hit = r.hit /\ fint[j].percent = <<r.hit, tot>>
                          ELSE kept = {}
                /\ \A j \in 1..Len(fint) :
                      \E i \in 1..Len(rawt) :
                          rawt[i].gram = fint[j].gram /\ rawt[i].lang = fint[j].lang

\* a raw row of grams2 of language L whose frequency is exactly 1 / d
\* (tot = d * hit) and which is not in the final table
AtFrequency(L, d) ==
    \E i \in 1..Len(raw.grams[2]) :
        /\ raw.grams[2][i].lang = L
        /\ HitSum(raw.grams[2], L) \div d = raw.grams[2][i].hit
        /\ HitSum(raw.grams[2], L) % d = 0
        /\ KeptAs(fin.grams[2], raw.grams[2][i]) = {}

\* C6 witness: the extraction has run on a raw store with an "eng" n-gram at
\* exactly 0.00001 and a "cmn" n-gram at exactly 0.000005, both left out, and
\* kept rows in both languages.
C6_Witness ==
    /\ Extracted
    /\ AtFrequency("eng", 100000)
    /\ AtFrequency("cmn", 200000)
    /\ \E j \in 1..Len(fin.grams[2]) : fin.grams[2][j].lang = "eng"
    /\ \E j \in 1..Len(fin.grams[2]) : fin.grams[2][j].lang = "cmn"

\* the positions of the row r in a table
Occurrences(table, r) == {i \in 1..Len(table) : table[i] = r}

\* C7: a raw (contributor, language, total) row is in the final users_langs,
\* unaltered, if and only if total > 100; the final table holds no other row.
C7_KeyContributorsStrictlyOver100 ==
    Extracted =>
        /\ \A i \in 1..Len(raw.users_langs) :
              LET r == raw.users_langs[i]
              IN  Cardinality(Occurrences(fin.users_langs, r))
                      = (IF r.total > 100 THEN 1 ELSE 0)
        /\ \A j \in 1..Len(fin.users_langs) :
              Occurrences(raw.users_langs, fin.users_langs[j]) # {}

\* C7 witness: the extraction has run on a raw store with a total of exactly
\* 100, left out, and a total of 101, kept.
C7_Witness ==
    /\ Extracted
    /\ \E i \in 1..Len(raw.users_langs) :
          /\ raw.users_langs[i].total = 100
          /\ Occurrences(fin.users_langs, raw.users_langs[i]) = {}
    /\ \E i \in 1..Len(raw.users_langs) :
          /\ raw.users_langs[i].total = 101
          /\ Occurrences(fin.users_langs, raw.users_langs[i]) # {}

\* C8: a corpus line that cannot be split into four tab-separated fields is
\* skipped and does not abort the pass: the run never ends on such a line.
C8_MalformedLineSkipped ==
    ~(/\ pc = "aborted"
      /\ lines_read > 0
      /\ Len(corpus[lines_read]) < 4)

\* the final store of the run with no flush inside the line loop
NoFlushFinalGrams(k) ==
    LET table == NoFlushTable(corpus, sentence_blacklist, k)
    IN  SelectKeyNgrams(table, table)
NoFlushFinalUsers ==
    SelectKeyUsers(PassScores(<<>>, corpus, sentence_blacklist))

\* main() has run to its end
PipelineCompleted == pc = "done"

\* C9 as stated: with no blacklist, every run of the pipeline on a corpus
\* leaves the same final tables, row for row in the same order, whatever the
\* memory probe reported.
C9_SameRowsInSameOrder ==
    (PipelineCompleted /\ sentence_blacklist = {}) =>
        /\ \A k \in NgramSizes : fin.grams[k] = NoFlushFinalGrams(k)
        /\ fin.users_langs = NoFlushFinalUsers

RECURSIVE RowsOfLang(_, _)
\* the rows of a table with lang = L, in the table's order
RowsOfLang(table, L) ==
    IF table = <<>> THEN <<>>
    ELSE (IF table[1].lang = L THEN <<table[1]>> ELSE <<>>)
         \o RowsOfLang(Tail(table), L)

\* C9 amended: with no blacklist, every run of the pipeline on a corpus leaves
\* final tables with the same rows and values, the rows of each language in
\* the same order; how the rows of different languages interleave may differ.
C9_SameRowsSameOrderWithinLanguage ==
    (PipelineCompleted /\ sentence_blacklist = {}) =>
        /\ \A k \in NgramSizes :
              LET ref == NoFlushFinalGrams(k)
              IN  /\ Len(fin.grams[k]) = Len(ref)
                  /\ RowSet(fin.grams[k]) = RowSet(ref)
                  /\ \A L \in AllLangs :
                        RowsOfLang(fin.grams[k], L) = RowsOfLang(ref, L)
        /\ fin.users_langs = NoFlushFinalUsers

\* C9 witness: the pipeline completed, with no blacklist, after flushes inside
\* the line loop that left the final grams2 in another order than the run
\* without them.
C9_Witness ==
    /\ PipelineCompleted
    /\ sentence_blacklist = {}
    /\ flushes >= 1
    /\ fin.grams[2] # NoFlushFinalGrams(2)
    /\ Len(fin.grams[5]) >= 2

\* a flush has just failed
FlushFailed == pc = "aborted" /\ err = "sqlite3.Error"

\* C10: a flush whose statement fails leaves the raw store as it was before
\* the flush, so applying the batch again gives what applying it once to the
\* store before the flush gives.
C10_FailedFlushLeavesStoreUnchanged ==
    [][FlushFailed' =>
          /\ raw' = raw
          /\ Upsert(raw'.grams[n'], lang_ngram_cnt')
                 = Upsert(raw.grams[n], lang_ngram_cnt')]_vars

\* C10 witness: a flush failed after some of its statements had run, on a
\* table that held rows of earlier flushes, one of which the batch had updated.
C10_Witness ==
    /\ FlushFailed
    /\ raw.grams[n] # <<>>
    /\ txn # raw.grams[n]
    /\ \E i \in 1..Len(raw.grams[n]) : txn[i].hit > raw.grams[n][i].hit

\* the platforms get_peak_memory_usage has no reading for
ProbeUnsupported ==
    \A reading \in RuMaxRss(platform) :
        get_peak_memory_usage(platform, reading) = <<>>

\* C11: where memory probing is unsupported count does not fail: the memory
\* trigger never fires and the run goes on to its end-of-pass flushes.
C11_UnsupportedProbeNeverFails ==
    ProbeUnsupported => ~(pc = "aborted" /\ err = "TypeError")

\* the blacklist source is missing: no path was given, or the path names no file
TagsMissing == tags.path \in {<<>>, <<NoSuchFile>>}

\* the blacklist source holds a malformed line
TagsMalformed ==
    \E i \in 1..Len(tags.lines) : TagLineRaises(tags.lines[i], CHANGE_FLAG)

\* C12: when the blacklist source file is missing or holds a malformed line,
\* loading degrades to an empty blacklist and the run proceeds to count with
\* no sentence excluded, instead of aborting.
C12_BadTagsGiveEmptyBlacklist ==
    (TagsMissing \/ TagsMalformed) /\ pc # "tags"
        => pc = "start" /\ sentence_blacklist = {}

\* the extraction has failed on its raw store
ExtractionFailed == pc = "aborted" /\ err = "sqlite3.OperationalError"

\* C13: when extraction runs against an incomplete raw store the run aborts
\* and no partial final store is published: after the failure the final
\* store's location holds no newly created store with empty or partially
\* filled tables (it holds nothing, or what it held before).
C13_FailedExtractionPublishesNothing ==
    ExtractionFailed => fin \in {AbsentStore, StaleFinalStore}

\* a pass has just started
AtPassStart == pc = "count" /\ lines_read = 0

\* the step is a flush inside the line loop, lines 135-138
MidPassFlushStep ==
    /\ FlushDue
    /\ n' = n
    /\ lines_read' = lines_read + 1
    /\ lang_ngram_cnt' = <<>>
    /\ peak_tot_ngrams' = <<Counted.tot>>

BufferKeys == Len(BatchEntries(lang_ngram_cnt))

\* C15: at every record boundary of every pass, tot_ngrams is the number of
\* distinct (language, n-gram) entries accumulated in memory since the
\* previous flush, that is the number of keys the buffer holds.
C15_CounterEqualsBufferKeys == pc = "count" => tot_ngrams = BufferKeys

\* a flush of the current pass has put rows in the pass's table, so the first
\* flush of the pass is past (the table is empty when the pass starts, and
\* only a flush inside the line loop writes to it before the pass ends)
FlushedInPass == pc = "count" /\ raw.grams[n] # <<>>

\* C16: the batch-size target is recorded once, at the first flush of a pass,
\* and stays as it is for the remainder of that pass: no later flush of the
\* same pass modifies it.
C16_TargetFixedAfterFirstFlush ==
    [][FlushedInPass /\ pc' = "count" /\ n' = n
          => peak_tot_ngrams' = peak_tot_ngrams]_vars

\* the hit of the key (gram, lang) in a table, 0 when no row has the key
HitOf(table, gram, lang) ==
    IF RowIndex(table, gram, lang) = 0 THEN 0
    ELSE table[RowIndex(table, gram, lang)].hit

\* the step ends a pass: the file is read and count goes on to the next size
\* or returns
PassEndStep ==
    /\ pc = "count"
    /\ lines_read = Len(corpus)
    /\ pc' \in {"count", "counted"}
    /\ n' # n

\* C17: at the end of each pass every entry still in the buffer is flushed
\* into that pass's grams{n} table, whether or not the target was reached or
\* any flush ever happened: the step that ends a pass adds the hits of every
\* buffer entry to its key's row and leaves nothing in the buffer, and when
\* count has returned the buffer holds nothing.
C17_EndOfPassFlushesRemainder ==
    /\ [][PassEndStep =>
            /\ \A i \in 1..Len(BatchEntries(lang_ngram_cnt)) :
                 LET e == BatchEntries(lang_ngram_cnt)[i]
                 IN  HitOf(raw'.grams[n], e.gram, e.lang)
                       = HitOf(raw.grams[n], e.gram, e.lang) + e.hits
            /\ lang_ngram_cnt' = <<>>]_vars
    /\ [](CountCompleted => lang_ngram_cnt = <<>>)

\* C17 witness: the first pass has ended without any flush inside its line
\* loop and with no target recorded, and its table holds rows.
C17_Witness ==
    /\ AtPassStart
    /\ n = MAX_NGRAM_SIZE - 1
    /\ flushes = 0
    /\ peak_tot_ngrams = <<>>
    /\ raw.grams[MAX_NGRAM_SIZE] # <<>>

\* C18: the buffer is cleared after each flush, inside a line loop or at the
\* end of a pass, so every counted occurrence is added to the raw store by
\* exactly one flush: every step that writes to a grams table leaves the
\* buffer empty, and at every record boundary the current pass's table with
\* the buffer added holds each key of the lines read so far with its number
\* of occurrences in them.
C18_BufferClearedByEveryFlush ==
    /\ [][pc = "count" /\ raw'.grams # raw.grams => lang_ngram_cnt' = <<>>]_vars
    /\ [](pc = "count" =>
            RowSet(Upsert(raw.grams[n], lang_ngram_cnt))
              = RowSet(NoFlushTable(SubSeq(corpus, 1, lines_read),
                                    sentence_blacklist, n)))

\* C18 witness: after a flush inside the line loop the buffer holds again a
\* key that this pass's table already has a row for.
C18_Witness ==
    /\ pc = "count"
    /\ flushes >= 1
    /\ \E i \in 1..Len(BatchEntries(lang_ngram_cnt)) :
          LET e == BatchEntries(lang_ngram_cnt)[i]
          IN  RowIndex(raw.grams[n], e.gram, e.lang) # 0

\* every row of the table `old` is in `new` at its place with its key and a
\* hit that is no smaller, and the rows `new` has more hold a hit of 1 or more
GrownFrom(old, new) ==
    /\ Len(new) >= Len(old)
    /\ \A i \in 1..Len(old) :
          /\ new[i].gram = old[i].gram
          /\ new[i].lang = old[i].lang
          /\ new[i].hit >= old[i].hit
    /\ \A i \in (Len(old) + 1)..Len(new) : new[i].hit >= 1

\* C19: throughout a count run every grams{n} table holds each
\* (n-gram, language) key in at most one row, and the hit of a key never goes
\* down: a flush inserts a new key with its delta or adds a positive delta
\* to the row the key has.
C19_KeysUniqueHitsNeverDecrease ==
    /\ [](pc \in {"count", "counted", "aborted"} =>
            \A k \in NgramSizes : KeysUnique(raw.grams[k]))
    /\ [][pc = "count" =>
            \A k \in NgramSizes : GrownFrom(raw.grams[k], raw'.grams[k])]_vars

\* C19 witness: in the first pass two flushes, one after each of two lines,
\* have made one row with the hit 2.
C19_Witness ==
    /\ pc = "count"
    /\ n = MAX_NGRAM_SIZE
    /\ lines_read = 2
    /\ flushes = 2
    /\ \E i \in 1..Len(raw.grams[n]) : raw.grams[n][i].hit = 2

\* C20: the recorded batch-size target is always 1 or more, and no flush
\* inside a line loop happens while the buffer is empty, whatever the corpus
\* and the probe's readings.
C20_TargetPositiveNoEmptyFlush ==
    /\ [](peak_tot_ngrams # <<>> => peak_tot_ngrams[1] >= 1)
    /\ [][MidPassFlushStep => Counted.cnt # <<>>]_vars

=============================================================================
